---- MODULE Spec2Model ----
(***************************************************************************)
(* Model of src/lib.rs: Coefficients<F> (biquad coefficient design) and    *)
(* Biquad<F> (direct-form-I filter with two input and two output history   *)
(* registers).                                                             *)
(*                                                                         *)
(* Numbers.  An f64 value v is represented by the integer v * ONE (fixed   *)
(* point, rounded to nearest after every operation).  The storage type F   *)
(* is the narrower float type: its values are the multiples of FQ, so a    *)
(* conversion F::from(f64) rounds and a widening F::to_f64 is exact.       *)
(* NaN and the infinities are not represented.                             *)
(***************************************************************************)
EXTENDS Integers, Sequences, FiniteSets, TLC

\* ------------------------------------------------------------------ numbers
ONE == 1000
FQ == 8

Abs(n) == IF n < 0 THEN -n ELSE n
Min(a, b) == IF a < b THEN a ELSE b

\* n / d rounded to the nearest integer, d > 0
Round(n, d) == (2 * n + d) \div (2 * d)

\* f64 multiplication and division
Mul(a, b) == Round(a * b, ONE)
Div(a, b) == IF b < 0 THEN Round(-(a * ONE), -b) ELSE Round(a * ONE, b)

\* F::from(f64): narrowing to the storage type
FromF64(v) == Round(v, FQ) * FQ
\* F::to_f64: widening, every F value is an f64 value
ToF64(v) == v
\* F::from(u32)
FromU32(n) == FromF64(n * ONE)
\* F multiplication: the exact product rounded once to F
MulF(a, b) == Round(a * b, ONE * FQ) * FQ
Zero == 0
One == FromF64(ONE)

\* std::f64::consts::PI
PI == Round(355 * ONE, 113)
LN10 == Round(23026 * ONE, 10000)

\* term + next terms of a power series, term(k+2) = -term(k) * x2 / ((k+1)(k+2))
RECURSIVE Series(_, _, _, _)
Series(term, x2, k, sign) ==
    IF term = 0 THEN 0
    ELSE term + Series(sign * Round(Mul(term, x2), (k + 1) * (k + 2)), x2, k + 2, sign)

SinP(x) == Series(x, Mul(x, x), 1, -1)
CosP(x) == Series(ONE, Mul(x, x), 0, -1)

\* f64::sin / f64::cos, argument reduced to [0, PI/2]
RECURSIVE Sin(_)
Sin(x) ==
    IF x < 0 THEN -Sin(-x)
    ELSE IF x > 2 * PI THEN Sin(x - 2 * PI)
    ELSE IF x > PI THEN -Sin(x - PI)
    ELSE IF 2 * x > PI THEN SinP(PI - x)
    ELSE SinP(x)

RECURSIVE Cos(_)
Cos(x) ==
    IF x < 0 THEN Cos(-x)
    ELSE IF x > 2 * PI THEN Cos(x - 2 * PI)
    ELSE IF x > PI THEN -Cos(x - PI)
    ELSE IF 2 * x > PI THEN -CosP(PI - x)
    ELSE CosP(x)

\* e^y for 0 <= y: sum of y^k / k!
RECURSIVE ExpSeries(_, _, _)
ExpSeries(term, y, k) ==
    IF term = 0 THEN 0 ELSE term + ExpSeries(Round(Mul(term, y), k), y, k + 1)

\* f64::powf(10., e)
RECURSIVE Powf10(_)
Powf10(e) ==
    IF e < 0 THEN Div(ONE, Powf10(-e))
    ELSE IF e >= ONE THEN 10 * Powf10(e - ONE)
    ELSE ExpSeries(ONE, Mul(LN10, e), 1)

RECURSIVE NewtonDown(_, _)
NewtonDown(n, r) ==
    LET s == (r + n \div r) \div 2
    IN  IF s >= r THEN r ELSE NewtonDown(n, s)

\* f64::sqrt
Sqrt(v) == IF v <= 0 THEN 0 ELSE NewtonDown(v * ONE, v * ONE)


\* ------------------------------------------------------------- Coefficients
FilterType ==
    {"Lowpass", "Highpass", "Bandpass1", "Bandpass2", "Notch", "Allpass",
     "Peak", "Lowshelf", "Highshelf"}

\* #[derive(Default)] Coefficients<F>
CoefficientsDefault ==
    [sample_rate |-> Zero, a0 |-> Zero, a1 |-> Zero, a2 |-> Zero,
     b0 |-> Zero, b1 |-> Zero, b2 |-> Zero]

\* #[derive(Clone)] Coefficients<F>: a field-by-field copy
CoefficientsCloneNoRate(c) ==
    [sample_rate |-> Zero, a0 |-> c.a0, a1 |-> c.a1, a2 |-> c.a2,
     b0 |-> c.b0, b1 |-> c.b1, b2 |-> c.b2]

CoefficientsClone(c) ==
    [sample_rate |-> c.sample_rate, a0 |-> c.a0, a1 |-> c.a1, a2 |-> c.a2,
     b0 |-> c.b0, b1 |-> c.b1, b2 |-> c.b2]

\* Coefficients::set_sample_rate
SetSampleRate(c, sample_rate) == [c EXCEPT !.sample_rate = FromU32(sample_rate)]

\* the four early returns of Coefficients::set, "Ok" when none is taken
ValidateLowFirst(sample_rate, frequency, q) ==
    IF sample_rate = Zero THEN "NoSampleRate"
    ELSE IF frequency < ONE THEN "FrequencyTooLow"
    ELSE IF Mul(2 * ONE, frequency) > ToF64(sample_rate) THEN "FrequencyOverNyqist"
    ELSE IF q < 0 THEN "NegativeQ"
    ELSE "Ok"

ValidateNoRate(sample_rate, frequency, q) ==
    IF Mul(2 * ONE, frequency) > ToF64(sample_rate) THEN "FrequencyOverNyqist"
    ELSE IF frequency < ONE THEN "FrequencyTooLow"
    ELSE IF q < 0 THEN "NegativeQ"
    ELSE "Ok"

Validate(sample_rate, frequency, q) ==
    IF sample_rate = Zero THEN "NoSampleRate"
    ELSE IF Mul(2 * ONE, frequency) > ToF64(sample_rate) THEN "FrequencyOverNyqist"
    ELSE IF frequency < ONE THEN "FrequencyTooLow"
    ELSE IF q < 0 THEN "NegativeQ"
    ELSE "Ok"

\* let omega = 2. * PI * frequency / sample_rate
Omega(sample_rate, frequency) ==
    Div(Mul(Mul(2 * ONE, PI), frequency), ToF64(sample_rate))

\* let alpha = sin / 2. * q
AlphaCookbook(sin, q) == IF q = 0 THEN sin ELSE Div(sin, Mul(2 * ONE, q))

Alpha(sin, q) == Mul(Div(sin, 2 * ONE), q)

\* the match of Coefficients::set: the six coefficients of one filter type
Design(c, filter_type, frequency, gain_db, q) ==
    LET a     == Powf10(Div(gain_db, 40 * ONE))
        omega == Omega(c.sample_rate, frequency)
        sin   == Sin(omega)
        cos   == Cos(omega)
        alpha == Alpha(sin, q)
        beta  == Mul(Mul(2 * ONE, Sqrt(a)), alpha)
        K(b0, b1, b2, a0, a1, a2) ==
            [sample_rate |-> c.sample_rate,
             a0 |-> a0, a1 |-> a1, a2 |-> a2, b0 |-> b0, b1 |-> b1, b2 |-> b2]
    IN  CASE filter_type = "Lowpass" ->
               K(FromF64(Div(ONE - cos, 2 * ONE)),
                 FromF64(ONE - cos),
                 FromF64(Div(ONE - cos, 2 * ONE)),
                 FromF64(ONE + alpha),
                 FromF64(Mul(-2 * ONE, cos)),
                 FromF64(ONE - alpha))
          [] filter_type = "Highpass" ->
               K(FromF64(Div(ONE + cos, 2 * ONE)),
                 FromF64(-(ONE + cos)),
                 FromF64(Div(ONE + cos, 2 * ONE)),
                 FromF64(ONE + alpha),
                 FromF64(Mul(-2 * ONE, cos)),
                 FromF64(ONE - alpha))
          [] filter_type = "Bandpass1" ->
               K(FromF64(Mul(q, alpha)),
                 Zero,
                 FromF64(Mul(-q, alpha)),
                 FromF64(ONE + alpha),
                 FromF64(Mul(-2 * ONE, cos)),
                 FromF64(ONE - alpha))
          [] filter_type = "Bandpass2" ->
               K(FromF64(alpha),
                 Zero,
                 FromF64(-alpha),
                 FromF64(ONE + alpha),
                 FromF64(Mul(-2 * ONE, cos)),
                 FromF64(ONE - alpha))
          [] filter_type = "Notch" ->
               K(One,
                 FromF64(Mul(-2 * ONE, cos)),
                 One,
                 FromF64(ONE + alpha),
                 FromF64(Mul(-2 * ONE, cos)),
                 FromF64(ONE - alpha))
          [] filter_type = "Allpass" ->
               K(FromF64(ONE - alpha),
                 FromF64(Mul(-2 * ONE, cos)),
                 FromF64(ONE + alpha),
                 FromF64(ONE + alpha),
                 FromF64(Mul(-2 * ONE, cos)),
                 FromF64(ONE - alpha))
          [] filter_type = "Peak" ->
               K(FromF64(ONE + Mul(alpha, a)),
                 FromF64(Mul(-2 * ONE, cos)),
                 FromF64(ONE - Mul(alpha, a)),
                 FromF64(ONE + Div(alpha, a)),
                 FromF64(Mul(-2 * ONE, cos)),
                 FromF64(ONE - Div(alpha, a)))
          [] filter_type = "Lowshelf" ->
               K(FromF64(Mul(a, (a + ONE) - Mul(a - ONE, cos) + beta)),
                 FromF64(Mul(Mul(2 * ONE, a), (a - ONE) - Mul(a + ONE, cos))),
                 FromF64(Mul(a, (a + ONE) - Mul(a - ONE, cos) - beta)),
                 FromF64((a + ONE) + Mul(a - ONE, cos) + beta),
                 FromF64(Mul(-2 * ONE, (a - ONE) + Mul(a + ONE, cos))),
                 FromF64((a + ONE) + Mul(a - ONE, cos) - beta))
          [] filter_type = "Highshelf" ->
               K(FromF64(Mul(a, (a + ONE) + Mul(a - ONE, cos) + beta)),
                 FromF64(Mul(Mul(-2 * ONE, a), (a - ONE) + Mul(a + ONE, cos))),
                 FromF64(Mul(a, (a + ONE) + Mul(a - ONE, cos) - beta)),
                 FromF64((a + ONE) - Mul(a - ONE, cos) + beta),
                 FromF64(Mul(2 * ONE, (a - ONE) - Mul(a + ONE, cos))),
                 FromF64((a + ONE) - Mul(a - ONE, cos) - beta))

\* Coefficients::set with q checked only after the coefficients are written
CoefficientsSetEager(c, filter_type, frequency, gain_db, q) ==
    LET r == Validate(c.sample_rate, frequency, q)
    IN  [result |-> r,
         c |-> IF r \in {"Ok", "NegativeQ"}
               THEN Design(c, filter_type, frequency, gain_db, q) ELSE c]

\* Coefficients::set: the result and the coefficient set it leaves behind
CoefficientsSet(c, filter_type, frequency, gain_db, q) ==
    LET r == Validate(c.sample_rate, frequency, q)
    IN  [result |-> r,
         c |-> IF r = "Ok" THEN Design(c, filter_type, frequency, gain_db, q) ELSE c]


\* ------------------------------------------------------------------- Biquad
\* model bounds
MaxTicks == 3
MaxLen == 3
MaxProd == 1000000000

\* arguments the operations are called with
SampleRates == {0, 1, 8}
Frequencies == {(3 * ONE) \div 4, ONE, 4 * ONE, 5 * ONE}
Gains == {0, 40 * ONE}
Qs == {-ONE, 0, 2 * ONE}
\* slices handed to process: input samples and output slices with old content
InputSlice(n) == [i \in 1..n |-> IF i % 2 = 1 THEN One ELSE Zero]
Stale == 9 * FQ
OutputSlice(n) == [i \in 1..n |-> Stale]
Stream == {Zero, One}
\* coefficient sets handed to set_coefficients besides a value of coefficients()
Swap ==
    [sample_rate |-> FromU32(8), a0 |-> 2 * One, a1 |-> -One, a2 |-> One,
     b0 |-> One, b1 |-> 2 * One, b2 |-> -2 * One]
Injected ==
    {CoefficientsDefault, Swap,
     [sample_rate |-> Zero, a0 |-> One, a1 |-> One, a2 |-> Zero,
      b0 |-> 2 * One, b1 |-> -One, b2 |-> One]}

VARIABLES
    coefficients,   \* Biquad::coefficients
    x1, x2, y1, y2, \* Biquad::x1, x2, y1, y2
    call,           \* the last call and its arguments
    ret,            \* what the last call returned or wrote to its output slice
    log,            \* per tick since the last reset: coefficients, input, output
    prepared,       \* prepare has been called
    injected        \* set_coefficients has stored a nonzero sample rate

vars == <<coefficients, x1, x2, y1, y2, call, ret, log, prepared, injected>>

H == [x1 |-> x1, x2 |-> x2, y1 |-> y1, y2 |-> y2]

NoCall ==
    [op |-> "default", filter_type |-> "Lowpass", frequency |-> 0, gain_db |-> 0,
     q |-> 0, sample_rate |-> 0, input |-> Zero, in_buf |-> <<>>, out_buf |-> <<>>,
     coefs |-> CoefficientsDefault]

NoRet == [result |-> "Ok", out |-> Zero, output |-> <<>>, coefs |-> CoefficientsDefault]

\* #[derive(Default)] Biquad<F>
Init ==
    /\ coefficients = CoefficientsDefault
    /\ x1 = Zero /\ x2 = Zero /\ y1 = Zero /\ y2 = Zero
    /\ call = NoCall
    /\ ret = NoRet
    /\ log = <<>>
    /\ prepared = FALSE
    /\ injected = FALSE

\* the products of one tick stay within the integers of the model
Fits(a, b) == IF a = 0 THEN TRUE ELSE Abs(b) <= MaxProd \div Abs(a)
TickFits(c, h, input) ==
    /\ Fits(c.b0, input) /\ Fits(c.b1, h.x1) /\ Fits(c.b2, h.x2)
    /\ Fits(c.a1, h.y1) /\ Fits(c.a2, h.y2)

\* Biquad::tick, let out = ...
TickOutNormalized(c, h, input) ==
    LET n == MulF(c.b0, input) + MulF(c.b1, h.x1) + MulF(c.b2, h.x2)
             - MulF(c.a1, h.y1) - MulF(c.a2, h.y2)
    IN  IF c.a0 = Zero THEN n ELSE FromF64(Div(n, c.a0))

TickOut(c, h, input) ==
    MulF(c.b0, input) + MulF(c.b1, h.x1) + MulF(c.b2, h.x2)
    - MulF(c.a1, h.y1) - MulF(c.a2, h.y2)

\* Biquad::tick, the four assignments after out
TickShiftOutFirst(h, input, out) ==
    [x2 |-> h.x1, x1 |-> input, y2 |-> out, y1 |-> out]

TickShift(h, input, out) ==
    [x2 |-> h.x1, x1 |-> input, y2 |-> h.y1, y1 |-> out]

\* Biquad::prepare
Prepare(sample_rate) ==
    /\ coefficients' = SetSampleRate(coefficients, sample_rate)
    /\ call' = [NoCall EXCEPT !.op = "prepare", !.sample_rate = sample_rate]
    /\ ret' = NoRet
    /\ prepared' = TRUE
    /\ UNCHANGED <<x1, x2, y1, y2, log, injected>>

\* Biquad::set that also clears the history
SetClearing(filter_type, frequency, gain_db, q) ==
    LET r == CoefficientsSet(coefficients, filter_type, frequency, gain_db, q)
    IN  /\ coefficients' = r.c
        /\ x1' = Zero /\ x2' = Zero /\ y1' = Zero /\ y2' = Zero
        /\ call' = [NoCall EXCEPT !.op = "set", !.filter_type = filter_type,
                       !.frequency = frequency, !.gain_db = gain_db, !.q = q]
        /\ ret' = [NoRet EXCEPT !.result = r.result]
        /\ UNCHANGED <<log, prepared, injected>>

\* Biquad::set
Set(filter_type, frequency, gain_db, q) ==
    LET r == CoefficientsSet(coefficients, filter_type, frequency, gain_db, q)
    IN  /\ coefficients' = r.c
        /\ call' = [NoCall EXCEPT !.op = "set", !.filter_type = filter_type,
                       !.frequency = frequency, !.gain_db = gain_db, !.q = q]
        /\ ret' = [NoRet EXCEPT !.result = r.result]
        /\ UNCHANGED <<x1, x2, y1, y2, log, prepared, injected>>

\* Biquad::tick
Tick(input) ==
    /\ Len(log) < MaxTicks
    /\ TickFits(coefficients, H, input)
    /\ LET out == TickOut(coefficients, H, input)
           h   == TickShift(H, input, out)
       IN  /\ x1' = h.x1 /\ x2' = h.x2 /\ y1' = h.y1 /\ y2' = h.y2
           /\ call' = [NoCall EXCEPT !.op = "tick", !.input = input]
           /\ ret' = [NoRet EXCEPT !.out = out]
           /\ log' = Append(log, [coefs |-> coefficients, in |-> input, out |-> out])
    /\ UNCHANGED <<coefficients, prepared, injected>>

\* output.iter_mut().zip(input): the number of pairs
ZipLenShort(input, output) ==
    IF Min(Len(input), Len(output)) = 0 THEN 0 ELSE Min(Len(input), Len(output)) - 1

ZipLen(input, output) == Min(Len(input), Len(output))

\* the for_each of Biquad::process from pair i on; st is the filter history,
\* the output slice, the ticks made and whether every tick fitted
RECURSIVE ProcessFrom(_, _, _, _, _)
ProcessFrom(c, st, input, i, n) ==
    IF i > n THEN st
    ELSE LET out == TickOut(c, st.h, input[i])
         IN  IF ~TickFits(c, st.h, input[i]) THEN [st EXCEPT !.fits = FALSE]
             ELSE ProcessFrom(c,
                     [h |-> TickShift(st.h, input[i], out),
                      output |-> [st.output EXCEPT ![i] = out],
                      ticks |-> Append(st.ticks, [coefs |-> c, in |-> input[i], out |-> out]),
                      fits |-> TRUE],
                     input, i + 1, n)

\* Biquad::process
Process(input, output) ==
    LET n == ZipLen(input, output)
        r == ProcessFrom(coefficients,
                         [h |-> H, output |-> output, ticks |-> <<>>, fits |-> TRUE],
                         input, 1, n)
    IN  /\ Len(log) + n <= MaxTicks
        /\ r.fits
        /\ x1' = r.h.x1 /\ x2' = r.h.x2 /\ y1' = r.h.y1 /\ y2' = r.h.y2
        /\ call' = [NoCall EXCEPT !.op = "process", !.in_buf = input, !.out_buf = output]
        /\ ret' = [NoRet EXCEPT !.output = r.output]
        /\ log' = log \o r.ticks
        /\ UNCHANGED <<coefficients, prepared, injected>>

\* Biquad::reset that rebuilds the whole filter
ResetAll ==
    /\ x1' = Zero /\ x2' = Zero /\ y1' = Zero /\ y2' = Zero
    /\ coefficients' = CoefficientsDefault
    /\ call' = [NoCall EXCEPT !.op = "reset"]
    /\ ret' = NoRet
    /\ log' = <<>>
    /\ UNCHANGED <<prepared, injected>>

\* Biquad::reset
Reset ==
    /\ x1' = Zero /\ x2' = Zero /\ y1' = Zero /\ y2' = Zero
    /\ call' = [NoCall EXCEPT !.op = "reset"]
    /\ ret' = NoRet
    /\ log' = <<>>
    /\ UNCHANGED <<coefficients, prepared, injected>>

\* Biquad::set_coefficients
SetCoefficients(c) ==
    /\ coefficients' = c
    /\ call' = [NoCall EXCEPT !.op = "set_coefficients", !.coefs = c]
    /\ ret' = NoRet
    /\ injected' = (injected \/ c.sample_rate # Zero)
    /\ UNCHANGED <<x1, x2, y1, y2, log, prepared>>

\* Biquad::coefficients
GetCoefficients ==
    /\ call' = [NoCall EXCEPT !.op = "coefficients"]
    /\ ret' = [NoRet EXCEPT !.coefs = CoefficientsClone(coefficients)]
    /\ UNCHANGED <<coefficients, x1, x2, y1, y2, log, prepared, injected>>

\* the filter's life: every operation in any order, retuned among a few designs
Retunes ==
    {<<"Lowpass", ONE, 0, 2 * ONE>>,
     <<"Peak", 5 * ONE, 40 * ONE, 2 * ONE>>}

Next ==
    \/ \E sample_rate \in {8} : Prepare(sample_rate)
    \/ \E r \in Retunes : Set(r[1], r[2], r[3], r[4])
    \/ \E input \in Stream : Tick(input)
    \/ \E n \in 0..MaxLen : Process(InputSlice(n), OutputSlice(n))
    \/ Reset
    \/ \E c \in {Swap, ret.coefs} : SetCoefficients(c)
    \/ GetCoefficients

Spec == Init /\ [][Next]_vars

\* streaming: blocks whose input and output slices differ in length, between
\* single ticks, resets and coefficient swaps
NextStream ==
    \/ \E input \in Stream : Tick(input)
    \/ \E n \in 0..MaxLen, m \in 0..MaxLen : Process(InputSlice(n), OutputSlice(m))
    \/ Reset
    \/ \E c \in Injected : SetCoefficients(c)

SpecStream == Init /\ [][NextStream]_vars

\* a filter on which prepare is never called: every other operation, with
\* coefficient sets of zero and nonzero sample rate handed to set_coefficients
NextUnprepared ==
    \/ \E r \in Retunes : Set(r[1], r[2], r[3], r[4])
    \/ \E input \in Stream : Tick(input)
    \/ \E n \in 0..MaxLen : Process(InputSlice(n), OutputSlice(n))
    \/ Reset
    \/ \E c \in Injected \cup {ret.coefs} : SetCoefficients(c)
    \/ GetCoefficients

SpecUnprepared == Init /\ [][NextUnprepared]_vars

\* Coefficients::set as a function: one call with every combination of
\* arguments, on a filter left by prepare(8), set(..) or set_coefficients(..)
\* and a final prepare(..)
Designed ==
    {Design(SetSampleRate(CoefficientsDefault, 8), "Lowpass", ONE, 0, 2 * ONE)}

InitDesign ==
    /\ \E c \in Injected \cup Designed, sample_rate \in SampleRates :
          /\ coefficients = SetSampleRate(c, sample_rate)
          /\ call = [NoCall EXCEPT !.op = "prepare", !.sample_rate = sample_rate]
          /\ injected = (c \in Injected /\ c.sample_rate # Zero)
    /\ x1 = Zero /\ x2 = Zero /\ y1 = Zero /\ y2 = Zero
    /\ ret = NoRet
    /\ log = <<>>
    /\ prepared = TRUE

NextDesign ==
    /\ call.op = "prepare"
    /\ \E filter_type \in FilterType, frequency \in Frequencies,
          gain_db \in Gains, q \in Qs : Set(filter_type, frequency, gain_db, q)

SpecDesign == InitDesign /\ [][NextDesign]_vars


\* ------------------------------------------------------------------- claims
Errors == {"NoSampleRate", "FrequencyOverNyqist", "FrequencyTooLow", "NegativeQ"}
History == <<x1, x2, y1, y2>>

C2_NeverPreparedAlwaysFails ==
    (call.op = "set" /\ ~prepared) => ret.result = "NoSampleRate"

\* C2, amended: on a filter never prepared and into which set_coefficients has
\* never stored a nonzero sample rate, design fails with NoSampleRate.
C2_NoRateAlwaysFails ==
    (call.op = "set" /\ ~prepared /\ ~injected) => ret.result = "NoSampleRate"

\* a design attempt on an unprepared filter that was handed coefficients with
\* a zero sample rate and has ticked with them
C2_Witness ==
    /\ call.op = "set"
    /\ ~prepared /\ ~injected
    /\ coefficients.b0 # Zero
    /\ Len(log) > 0 /\ y1 # Zero
    /\ ret.result = "NoSampleRate"

\* C3: tick returns b0*input + b1*x1 + b2*x2 - a1*y1 - a2*y2 of the pre-call
\* registers, a0 playing no part, and shifts x2 <- x1, x1 <- input,
\* y2 <- y1, y1 <- out.
C3_TickEquation ==
    [][call'.op = "tick" =>
        LET c   == coefficients
            in  == call'.input
            out == MulF(c.b0, in) + MulF(c.b1, x1) + MulF(c.b2, x2)
                   - MulF(c.a1, y1) - MulF(c.a2, y2)
        IN  /\ ret'.out = out
            /\ x2' = x1 /\ x1' = in /\ y2' = y1 /\ y1' = out]_vars

\* a third tick, whose five terms are all nonzero, under a0 other than 0 and 1
C3_Witness ==
    /\ call.op = "tick"
    /\ Len(log) = 3
    /\ \A i \in 1..3 : log[i].in # Zero /\ log[i].out # Zero
    /\ \A k \in {"a1", "a2", "b0", "b1", "b2"} : coefficients[k] # Zero
    /\ coefficients.a0 \notin {Zero, One}
    /\ log[3].coefs = coefficients

\* the k-th most recent input / output of the log, 0 when there is none
LastIn(k) == IF Len(log) >= k THEN log[Len(log) + 1 - k].in ELSE Zero
LastOut(k) == IF Len(log) >= k THEN log[Len(log) + 1 - k].out ELSE Zero

\* C4: design (succeeding or failing), set_coefficients and prepare leave
\* x1, x2, y1, y2 unchanged, and the tick that follows a change of coefficients
\* combines the new coefficients with the inputs and outputs of the ticks made
\* under the old ones.
C4_HotSwap ==
    [][/\ call'.op \in {"set", "set_coefficients", "prepare"} => History' = History
       /\ (call'.op = "tick" /\ call.op \in {"set", "set_coefficients"}) =>
            ret'.out = MulF(coefficients.b0, call'.input)
                       + MulF(coefficients.b1, LastIn(1)) + MulF(coefficients.b2, LastIn(2))
                       - MulF(coefficients.a1, LastOut(1)) - MulF(coefficients.a2, LastOut(2))]_vars

\* two ticks under one coefficient set, then a tick under another
C4_Witness ==
    /\ call.op = "tick"
    /\ Len(log) = 3
    /\ log[2].coefs = log[1].coefs
    /\ log[3].coefs # log[2].coefs
    /\ \A i \in 1..2 : log[i].in # Zero /\ log[i].out # Zero
    /\ \A k \in {"a1", "a2", "b1", "b2"} : log[3].coefs[k] # Zero

\* C5: reset zeroes x1, x2, y1, y2 and leaves the sample rate and the six
\* coefficients unchanged.
C5_Reset ==
    [][call'.op = "reset" =>
        /\ x1' = Zero /\ x2' = Zero /\ y1' = Zero /\ y2' = Zero
        /\ coefficients' = coefficients]_vars

\* a reset of a designed filter
C5_Witness ==
    /\ call.op = "reset"
    /\ coefficients.sample_rate # Zero
    /\ \A k \in {"a0", "a1", "a2", "b0", "b1", "b2"} : coefficients[k] # Zero
    /\ History = <<Zero, Zero, Zero, Zero>>

\* the history after ticking input[1..k] from history h
RECURSIVE AfterTicks(_, _, _, _)
AfterTicks(c, h, input, k) ==
    IF k = 0 THEN h
    ELSE LET g == AfterTicks(c, h, input, k - 1)
         IN  TickShift(g, input[k], TickOut(c, g, input[k]))

\* C6: process is N = min(len(input), len(output)) ticks on input[1..N] in
\* order, output[i] receiving the i-th result; output beyond N and, when
\* N = 0, the whole filter and output are left alone.
C6_ProcessIsTicks ==
    [][call'.op = "process" =>
        LET input  == call'.in_buf
            output == call'.out_buf
            N      == IF Len(input) < Len(output) THEN Len(input) ELSE Len(output)
        IN  /\ Len(ret'.output) = Len(output)
            /\ \A i \in 1..Len(output) :
                 ret'.output[i] =
                    IF i <= N
                    THEN TickOut(coefficients, AfterTicks(coefficients, H, input, i - 1), input[i])
                    ELSE output[i]
            /\ H' = AfterTicks(coefficients, H, input, N)
            /\ coefficients' = coefficients
            /\ N = 0 => (History' = History /\ ret'.output = output)]_vars

\* a block of two samples written into a longer output slice
C6_Witness ==
    /\ call.op = "process"
    /\ Len(call.in_buf) = 2
    /\ Len(call.out_buf) = 3
    /\ ret.output[1] # ret.output[2]
    /\ ret.output[1] # Stale /\ ret.output[2] # Stale
    /\ ret.output[3] = Stale
    /\ y2 # Zero

\* C7: set_coefficients(coefficients()) leaves the sample rate, the six
\* coefficients and the four history registers unchanged, hence every later
\* tick output too.
C7_RoundTrip ==
    [][(call.op = "coefficients" /\ call'.op = "set_coefficients"
        /\ call'.coefs = ret.coefs) =>
        /\ coefficients' = coefficients
        /\ History' = History
        /\ \A in \in Stream : TickOut(coefficients', H', in) = TickOut(coefficients, H, in)]_vars

\* a designed coefficient set handed back to a filter with history
C7_Witness ==
    /\ call.op = "set_coefficients"
    /\ call.coefs \notin Injected
    /\ call.coefs.sample_rate # Zero
    /\ x1 # Zero /\ y1 # Zero

\* C8: a successful Lowpass or Highpass design stores a0 = 1 + alpha,
\* a1 = -2 cos, a2 = 1 - alpha with alpha = (sin / 2) * q, and b0 = b2 =
\* (1 - cos)/2, b1 = 1 - cos (Lowpass) or b0 = b2 = (1 + cos)/2,
\* b1 = -(1 + cos) (Highpass), none of them divided by a0.
C8_LowHighpass ==
    [][(call'.op = "set" /\ ret'.result = "Ok"
        /\ call'.filter_type \in {"Lowpass", "Highpass"}) =>
        LET omega == Div(Mul(2 * PI, call'.frequency), coefficients.sample_rate)
            alpha == Mul(Div(Sin(omega), 2 * ONE), call'.q)
            cos   == Cos(omega)
            low   == call'.filter_type = "Lowpass"
            n     == IF low THEN ONE - cos ELSE ONE + cos
        IN  /\ coefficients'.sample_rate = coefficients.sample_rate
            /\ coefficients'.a0 = FromF64(ONE + alpha)
            /\ coefficients'.a1 = FromF64(-(2 * cos))
            /\ coefficients'.a2 = FromF64(ONE - alpha)
            /\ coefficients'.b0 = FromF64(Div(n, 2 * ONE))
            /\ coefficients'.b2 = FromF64(Div(n, 2 * ONE))
            /\ coefficients'.b1 = FromF64(IF low THEN n ELSE -n)]_vars

\* a Lowpass design with q = 2, whose a0 is not 1
C8_Witness ==
    /\ call.op = "set"
    /\ ret.result = "Ok"
    /\ call.filter_type = "Lowpass"
    /\ call.q = 2 * ONE
    /\ call.frequency = ONE
    /\ coefficients.a0 > One
    /\ coefficients.b1 # Zero

\* C9: x1, x2 are the last two inputs and y1, y2 the last two outputs of tick
\* since the last reset or construction, 0 for a sample not yet seen, whatever
\* design, prepare and set_coefficients calls came between the ticks.
C9_HistoryIsLastTwo ==
    /\ x1 = LastIn(1) /\ x2 = LastIn(2)
    /\ y1 = LastOut(1) /\ y2 = LastOut(2)

\* two ticks under different coefficient sets, with four distinct registers
C9_Witness ==
    /\ Len(log) >= 2
    /\ log[Len(log)].coefs # log[Len(log) - 1].coefs
    /\ x1 # x2 /\ y1 # y2 /\ y2 # Zero /\ y1 # Zero

\* C10: a design that returns one of the four validation errors leaves the
\* sample rate and the six coefficients as they were.
C10_FailedDesignKeepsCoefficients ==
    [][(call'.op = "set" /\ ret'.result \in Errors) => coefficients' = coefficients]_vars

\* a design rejected for its q on a filter that holds coefficients
C10_Witness ==
    /\ call.op = "set"
    /\ ret.result = "NegativeQ"
    /\ coefficients.sample_rate # Zero
    /\ coefficients.b0 # Zero /\ coefficients.a0 # Zero

====
